---- MODULE Spec2Model ----
(***************************************************************************)
(* Serverless invoice scanner: the upload-grant handler, the record store  *)
(* (single DynamoDB table) and the S3-triggered processing pipeline.       *)
(*                                                                         *)
(* Optional attributes (a TypeScript `x?: T`) are modelled as sets of at   *)
(* most one element: {} is undefined / null, {v} is the value v.           *)
(* Times are integers: Date.now() is `now`, and an ISO timestamp string is *)
(* represented by the same integer (ISO strings of one epoch order alike). *)
(***************************************************************************)
EXTENDS Integers, Sequences, FiniteSets, TLC

(***************************************************************************)
(* Bounds of the model                                                     *)
(***************************************************************************)
MaxClock == 2

MaxRecords == 1

MaxInvocations == 2

MaxEventRecords == 1

\* The store specification: records in the table, distinct uuids.
MaxStoreRecords == 2

MaxStoreIds == 2

\* The listing specification: records in the table.
MaxListRecords == 3

\* The batch specification: notifications in one S3 event.
MaxBatchRecords == 2

(***************************************************************************)
(* Program constants                                                       *)
(***************************************************************************)
MaxFileSize == 10485760

OcrMaxRetries == 3

AiMaxRetries == 2

OcrBaseDelay == 1000

AiBaseDelay == 2000

DefaultLimit == 20

StatusDefaultLimit == 50

SearchLimit == 100

(***************************************************************************)
(* Input domains                                                           *)
(***************************************************************************)
Users == {"u1"}

NoUser == "anonymous"

\* uuidv4() values: as many as records fit in the table.
UUIDs == {<<"uuid", n>> : n \in 1..MaxRecords}

FileNames == { <<"i", " ", "v", ".", "p">> }

FileSizes == {0, 10485761}

MimeTypes == {"IMAGE/PNG", "text/plain"}

Invs == 1..MaxInvocations

\* The store specification: two owners, uuids that may collide, page sizes.
Owners == {"u1", "u2"}

StoreIds == {<<"uuid", n>> : n \in 1..MaxStoreIds}

Limits == {1, DefaultLimit}

\* The listing specification: uuids, the extractedData of completed
\* records (texts are sequences of characters) and search terms.
ListIds == {<<"uuid", n>> : n \in 1..MaxListRecords}

SearchData ==
  { [vendorName |-> {<<"A">>}, invoiceNumber |-> {<<"b">>}, customerName |-> {},
     lineItems |-> {<< [description |-> <<"c">>] >>}, totalAmount |-> {100}] }

SearchTerms == { <<>>, <<"a">>, <<"C">>, <<"A", " ", "B">>, <<"z">> }

OcrErrors == {"ThrottlingException", "UnsupportedDocumentException"}

AiErrors == {"ModelTimeoutException"}

(***************************************************************************)
(* shared/types: InvoiceStatus                                             *)
(***************************************************************************)
InvoiceStatus == {"UPLOADED", "PROCESSING", "COMPLETED", "FAILED"}

(***************************************************************************)
(* shared/utils                                                            *)
(***************************************************************************)
AllowedTypes ==
  {"application/pdf", "image/jpeg", "image/jpg", "image/png", "image/tiff", "image/bmp"}

\* String.prototype.toLowerCase on the mime types of the input domain.
ToLowerCase(m) == IF m = "IMAGE/PNG" THEN "image/png" ELSE m

isValidFileType(mimeType) == ToLowerCase(mimeType) \in AllowedTypes

\* A variant of isValidFileSize whose upper limit is exclusive.
isValidFileSizeExclusive(size) == size > 0 /\ size < MaxFileSize

isValidFileSize(size) == size > 0 /\ size <= MaxFileSize

SafeChars ==
  {"i", "p", "v", ".", "-"}

\* fileName.replace(/[^a-zA-Z0-9.-]/g, '_')
SanitizeFileName(fileName) ==
  [k \in 1..Len(fileName) |-> IF fileName[k] \in SafeChars THEN fileName[k] ELSE "_"]

\* `uploads/${userId}/${timestamp}-${sanitizedFileName}`: the key is kept as
\* its path parts; the last part is the file name, whose leading
\* "<digits>-" is the field ts (absent when the name has no such prefix).
generateS3Key(userId, fileName, t) ==
  <<"uploads", userId, [ts |-> {t}, name |-> SanitizeFileName(fileName)]>>

RECURSIVE SumSeq(_)
SumSeq(s) == IF s = <<>> THEN 0 ELSE Head(s) + SumSeq(Tail(s))

\* A variant of calculateConfidence that keeps the last score instead of
\* accumulating.
calculateConfidenceLast(scores) ==
  IF Len(scores) = 0 THEN 0 ELSE scores[Len(scores)]

\* Confidences are percentages; the inputs of the model have exact means.
calculateConfidence(scores) ==
  IF Len(scores) = 0 THEN 0 ELSE SumSeq(scores) \div Len(scores)

(***************************************************************************)
(* State                                                                   *)
(***************************************************************************)
VARIABLES
  now,             \* Date.now()
  store,           \* the DynamoDB table: primary key <<PK, SK>> -> item
  updateCalls,     \* the UpdateCommands the pipeline has sent to the table
  uploadResponse,  \* the last response of the upload handler ({} before any)
  inv,             \* the pipeline invocations (one record per Lambda invocation)
  passes,          \* the processInvoiceFile calls that have returned
  reply            \* the last store operation or query: its arguments and outcome

vars == <<now, store, updateCalls, uploadResponse, inv, passes, reply>>

(***************************************************************************)
(* shared/database: InvoiceDatabase                                        *)
(***************************************************************************)
PrimaryKey(userId, invoiceId) == << <<"USER", userId>>, <<"INVOICE", invoiceId>> >>

\* createInvoice: PutCommand with ConditionExpression attribute_not_exists(PK).
\* The optional attributes of InvoiceMetadata are absent on creation.
createInvoice(st, invoice) ==
  LET key == PrimaryKey(invoice.userId, invoice.id)
      item == [PK |-> key[1], SK |-> key[2],
               GSI1PK |-> <<"STATUS", invoice.status>>,
               GSI1SK |-> invoice.createdAt,
               id |-> invoice.id, userId |-> invoice.userId,
               fileName |-> invoice.fileName, fileSize |-> invoice.fileSize,
               mimeType |-> invoice.mimeType, s3Key |-> invoice.s3Key,
               status |-> invoice.status,
               createdAt |-> invoice.createdAt, updatedAt |-> invoice.updatedAt,
               processingStartedAt |-> {}, processingCompletedAt |-> {},
               extractedData |-> {}, error |-> {}]
  IN IF key \in DOMAIN st
       THEN [ok |-> FALSE, store |-> st]
       ELSE [ok |-> TRUE, store |-> st @@ (key :> item)]

\* mapDynamoItemToInvoice: the item without its key attributes.
mapDynamoItemToInvoice(item) ==
  [f \in DOMAIN item \ {"PK", "SK", "GSI1PK", "GSI1SK"} |-> item[f]]

\* A variant of getInvoice that looks the record up by its id alone.
getInvoiceAnyOwner(st, invoiceId, userId) ==
  LET keys == {k \in DOMAIN st : k[2] = <<"INVOICE", invoiceId>>}
  IN IF keys = {} THEN {}
     ELSE {mapDynamoItemToInvoice(st[CHOOSE k \in keys : TRUE])}

\* getInvoice: GetCommand on the key (USER#userId, INVOICE#invoiceId).
\* {} is null.
getInvoice(st, invoiceId, userId) ==
  LET key == PrimaryKey(userId, invoiceId)
  IN IF key \in DOMAIN st THEN {mapDynamoItemToInvoice(st[key])} ELSE {}

\* The attributes of InvoiceMetadata that may be undefined.
OptionalFields ==
  {"processingStartedAt", "processingCompletedAt", "extractedData", "error"}

\* Object.entries(updates) whose value !== undefined.
DefinedFields(updates) ==
  {f \in DOMAIN updates : f \notin OptionalFields \/ updates[f] # {}}

\* The SET clause updateInvoice builds: one `#f = :f` per defined entry of
\* `updates`, then `#updatedAt = :updatedAt`, then `#GSI1PK = :GSI1PK` when
\* updates.status is set.
SetClause(updates) ==
  [entries |-> DefinedFields(updates),
   appended |-> <<"updatedAt">> \o
                  (IF "status" \in DefinedFields(updates) THEN <<"GSI1PK">> ELSE <<>>)]

\* DynamoDB rejects an update expression that names one path twice
\* (ValidationException: two document paths overlap).
PathsOverlap(clause) ==
  \E i \in DOMAIN clause.appended : clause.appended[i] \in clause.entries

\* A variant of updateInvoice without the ConditionExpression: an
\* UpdateCommand on a key that has no item creates the item.
updateInvoiceUpsert(st, invoiceId, userId, updates, t) ==
  LET key == PrimaryKey(userId, invoiceId)
      clause == SetClause(updates)
      blank == [PK |-> key[1], SK |-> key[2],
                GSI1PK |-> <<"STATUS", "UPLOADED">>, GSI1SK |-> t,
                id |-> invoiceId, userId |-> userId,
                fileName |-> <<>>, fileSize |-> 0, mimeType |-> "",
                s3Key |-> <<>>, status |-> "UPLOADED",
                createdAt |-> t, updatedAt |-> t,
                processingStartedAt |-> {}, processingCompletedAt |-> {},
                extractedData |-> {}, error |-> {}]
      Write(item) ==
        [f \in DOMAIN item |->
           IF f = "updatedAt" THEN t
           ELSE IF f = "GSI1PK" /\ "status" \in clause.entries
             THEN <<"STATUS", updates.status>>
           ELSE IF f \in clause.entries THEN updates[f]
           ELSE item[f]]
  IN IF PathsOverlap(clause)
       THEN [ok |-> FALSE, store |-> st]
       ELSE IF key \in DOMAIN st
         THEN [ok |-> TRUE, store |-> [st EXCEPT ![key] = Write(st[key])]]
         ELSE [ok |-> TRUE, store |-> st @@ (key :> Write(blank))]

\* updateInvoice: UpdateCommand on the key (USER#userId, INVOICE#invoiceId)
\* with ConditionExpression attribute_exists(PK).  A rejected command (the
\* expression is invalid, or the condition fails) changes nothing and the
\* method throws Error('Failed to update invoice').
updateInvoice(st, invoiceId, userId, updates, t) ==
  LET key == PrimaryKey(userId, invoiceId)
      clause == SetClause(updates)
      Write(item) ==
        [f \in DOMAIN item |->
           IF f = "updatedAt" THEN t
           ELSE IF f = "GSI1PK" /\ "status" \in clause.entries
             THEN <<"STATUS", updates.status>>
           ELSE IF f \in clause.entries THEN updates[f]
           ELSE item[f]]
  IN IF PathsOverlap(clause) \/ key \notin DOMAIN st
       THEN [ok |-> FALSE, store |-> st]
       ELSE [ok |-> TRUE, store |-> [st EXCEPT ![key] = Write(st[key])]]

\* The order of sort keys `INVOICE#<id>`: that of the ids.
SortKeyRank(key) == key[2][2][2]

\* The keys of one partition, by sort key descending (ScanIndexForward: false).
PartitionDescending(st, pk) ==
  LET keys == {k \in DOMAIN st : k[1] = pk}
      n == Cardinality(keys)
  IN CHOOSE s \in [1..n -> keys] :
       /\ \A i, j \in 1..n : i < j => SortKeyRank(s[i]) > SortKeyRank(s[j])

Min(a, b) == IF a < b THEN a ELSE b

\* A variant of QueryTable whose LastEvaluatedKey is the key of the last
\* item it returns, and absent when the page is empty.
QueryTableKeyOfLastMatch(st, pk, limit, exclusiveStartKey, filterStatus) ==
  LET all == PartitionDescending(st, pk)
      start == CHOOSE k \in exclusiveStartKey : TRUE
      rest == IF exclusiveStartKey = {} THEN all
              ELSE SelectSeq(all, LAMBDA k : SortKeyRank(k) < SortKeyRank(start))
      evaluated == SubSeq(rest, 1, Min(limit, Len(rest)))
      Matches(k) == filterStatus = {} \/ st[k].status \in filterStatus
      matching == SelectSeq(evaluated, Matches)
  IN IF exclusiveStartKey # {} /\ start[1] # pk
       THEN [ok |-> FALSE, Items |-> <<>>, LastEvaluatedKey |-> {}]
       ELSE [ok |-> TRUE,
             Items |-> [i \in DOMAIN matching |-> st[matching[i]]],
             LastEvaluatedKey |->
               IF Len(rest) >= limit /\ matching # <<>>
                 THEN {matching[Len(matching)]} ELSE {}]

\* QueryCommand on the table: the items of partition pk after
\* exclusiveStartKey, at most `limit` of them evaluated, the filter applied
\* to the evaluated ones.  LastEvaluatedKey is set when the limit stopped
\* the query.  A start key of another partition is rejected.
QueryTable(st, pk, limit, exclusiveStartKey, filterStatus) ==
  LET all == PartitionDescending(st, pk)
      start == CHOOSE k \in exclusiveStartKey : TRUE
      rest == IF exclusiveStartKey = {} THEN all
              ELSE SelectSeq(all, LAMBDA k : SortKeyRank(k) < SortKeyRank(start))
      evaluated == SubSeq(rest, 1, Min(limit, Len(rest)))
      Matches(k) == filterStatus = {} \/ st[k].status \in filterStatus
  IN IF exclusiveStartKey # {} /\ start[1] # pk
       THEN [ok |-> FALSE, Items |-> <<>>, LastEvaluatedKey |-> {}]
       ELSE [ok |-> TRUE,
             Items |-> [i \in DOMAIN SelectSeq(evaluated, Matches) |->
                          st[SelectSeq(evaluated, Matches)[i]]],
             LastEvaluatedKey |->
               IF Len(rest) >= limit THEN {evaluated[Len(evaluated)]} ELSE {}]

\* Buffer.from(JSON.stringify(key)).toString('base64') and its inverse.
EncodeToken(key) == <<"base64", <<"json", key>>>>

DecodeToken(token) == token[2][2]

\* A variant of getUserInvoices that queries the partition the cursor
\* points into.
getUserInvoicesOfCursor(st, userId, limit, nextToken, status) ==
  LET exclusiveStartKey == {DecodeToken(tok) : tok \in nextToken}
      pk == IF exclusiveStartKey = {} THEN <<"USER", userId>>
            ELSE (CHOOSE k \in exclusiveStartKey : TRUE)[1]
      result == QueryTable(st, pk, limit, exclusiveStartKey, status)
  IN [ok |-> TRUE,
      items |-> [i \in DOMAIN result.Items |->
                   mapDynamoItemToInvoice(result.Items[i])],
      nextToken |-> {EncodeToken(k) : k \in result.LastEvaluatedKey},
      count |-> Len(result.Items)]

\* getUserInvoices: one page of an owner's partition.  ok = FALSE is the
\* Error('Failed to retrieve invoices') it throws.
getUserInvoices(st, userId, limit, nextToken, status) ==
  LET exclusiveStartKey == {DecodeToken(tok) : tok \in nextToken}
      result == QueryTable(st, <<"USER", userId>>, limit, exclusiveStartKey, status)
  IN IF ~result.ok
       THEN [ok |-> FALSE, items |-> <<>>, nextToken |-> {}, count |-> 0]
       ELSE [ok |-> TRUE,
             items |-> [i \in DOMAIN result.Items |->
                          mapDynamoItemToInvoice(result.Items[i])],
             nextToken |-> {EncodeToken(k) : k \in result.LastEvaluatedKey},
             count |-> Len(result.Items)]

(***************************************************************************)
(* get handler: getInvoiceStats and searchInvoices                         *)
(***************************************************************************)
\* String.prototype.toLowerCase on texts over the characters of the input
\* domain.
LowerChar(c) ==
  IF c = "A" THEN "a" ELSE IF c = "B" THEN "b" ELSE IF c = "C" THEN "c" ELSE c

ToLowerText(text) == [i \in DOMAIN text |-> LowerChar(text[i])]

\* Array.prototype.join(' '): an undefined element is rendered as ''.
RECURSIVE JoinWithSpace(_)
JoinWithSpace(parts) ==
  IF parts = <<>> THEN <<>>
  ELSE LET head == IF Head(parts) = {} THEN <<>> ELSE CHOOSE t \in Head(parts) : TRUE
       IN IF Len(parts) = 1 THEN head
          ELSE head \o <<" ">> \o JoinWithSpace(Tail(parts))

\* String.prototype.includes.
Includes(text, term) ==
  \E offset \in 0..(Len(text) - Len(term)) :
    \A i \in 1..Len(term) : text[offset + i] = term[i]

\* The searchableText of an invoice's extractedData (lines 201-206).
SearchableText(data) ==
  LET lineItems == IF data.lineItems = {} THEN <<>> ELSE CHOOSE l \in data.lineItems : TRUE
      descriptions == [i \in DOMAIN lineItems |-> {lineItems[i].description}]
  IN ToLowerText(JoinWithSpace(
       <<data.vendorName, data.invoiceNumber, data.customerName>> \o descriptions))

\* searchInvoices: 400 (ValidationError) without a search term; otherwise
\* the first SearchLimit records of the owner are read with the status
\* filter COMPLETED and those whose searchable text includes the lower-cased
\* term are returned.
searchInvoices(st, userId, searchTerm) ==
  LET allInvoices == getUserInvoices(st, userId, SearchLimit, {}, {"COMPLETED"})
      Hit(invoice) ==
        /\ invoice.extractedData # {}
        /\ Includes(SearchableText(CHOOSE d \in invoice.extractedData : TRUE),
                    ToLowerText(searchTerm))
      searchResults == SelectSeq(allInvoices.items, Hit)
  IN IF searchTerm = <<>>
       THEN [statusCode |-> 400, items |-> <<>>, count |-> 0]
     ELSE IF ~allInvoices.ok
       THEN [statusCode |-> 500, items |-> <<>>, count |-> 0]
     ELSE [statusCode |-> 200, items |-> searchResults, count |-> Len(searchResults)]

\* The sum of extractedData.totalAmount || 0 over the items (lines 145-147).
RECURSIVE TotalAmount(_)
TotalAmount(items) ==
  IF items = <<>> THEN 0
  ELSE LET amounts == UNION {d.totalAmount : d \in Head(items).extractedData}
       IN (IF amounts = {} THEN 0 ELSE CHOOSE a \in amounts : TRUE)
            + TotalAmount(Tail(items))

\* getInvoiceStats: four getUserInvoices calls, with limit 1 for UPLOADED,
\* PROCESSING and FAILED and limit 100 for COMPLETED; the counts are the
\* lengths of the pages.
getInvoiceStats(st, userId) ==
  LET uploadedInvoices == getUserInvoices(st, userId, 1, {}, {"UPLOADED"})
      processingInvoices == getUserInvoices(st, userId, 1, {}, {"PROCESSING"})
      completedInvoices == getUserInvoices(st, userId, 100, {}, {"COMPLETED"})
      failedInvoices == getUserInvoices(st, userId, 1, {}, {"FAILED"})
  IN [totalInvoices |-> uploadedInvoices.count + processingInvoices.count
                          + completedInvoices.count + failedInvoices.count,
      byStatus |-> [uploaded |-> uploadedInvoices.count,
                    processing |-> processingInvoices.count,
                    completed |-> completedInvoices.count,
                    failed |-> failedInvoices.count],
      totalAmount |-> TotalAmount(completedInvoices.items)]

\* infrastructure: the key schema of the table's index StatusIndex.
StatusIndex == [partitionKey |-> "status", sortKey |-> "createdAt"]

\* QueryCommand on an index with the key condition `keyAttribute = value`:
\* rejected unless keyAttribute is the index's partition key (ValidationException:
\* query condition missed key schema element); otherwise the items whose
\* partition key attribute has the value, by the index's sort key
\* descending, at most `limit`.
QueryIndex(st, index, keyAttribute, value, limit) ==
  LET keys == {k \in DOMAIN st : st[k][index.partitionKey] = value}
      n == Cardinality(keys)
      sorted == CHOOSE s \in [1..n -> keys] :
                  /\ \A i, j \in 1..n : i # j => s[i] # s[j]
                  /\ \A i, j \in 1..n : i < j =>
                       st[s[i]][index.sortKey] >= st[s[j]][index.sortKey]
  IN IF keyAttribute # index.partitionKey
       THEN [ok |-> FALSE, Items |-> <<>>]
       ELSE [ok |-> TRUE,
             Items |-> [i \in 1..Min(limit, n) |-> st[sorted[i]]]]

\* getInvoicesByStatus: queries StatusIndex with `GSI1PK = STATUS#<status>`.
\* ok = FALSE is the Error('Failed to retrieve invoices by status').
getInvoicesByStatus(st, status, limit) ==
  LET result == QueryIndex(st, StatusIndex, "GSI1PK", <<"STATUS", status>>, limit)
  IN IF ~result.ok
       THEN [ok |-> FALSE, items |-> <<>>]
       ELSE [ok |-> TRUE,
             items |-> [i \in DOMAIN result.Items |->
                          mapDynamoItemToInvoice(result.Items[i])]]

(***************************************************************************)
(* upload/index.ts: handler (POST /invoices)                               *)
(***************************************************************************)
\* uploadRequestSchema (Joi): fileName 1..255 chars, fileSize integer 1..10 MiB.
uploadRequestSchemaValid(fileName, fileSize) ==
  /\ Len(fileName) >= 1 /\ Len(fileName) <= 255
  /\ fileSize >= 1 /\ fileSize <= 10 * 1024 * 1024

UploadRejection(userId, fileName, fileSize, mimeType) ==
  IF ~uploadRequestSchemaValid(fileName, fileSize) THEN {400}
  ELSE IF ~isValidFileType(mimeType) THEN {400}
  ELSE IF ~isValidFileSize(fileSize) THEN {400}
  ELSE IF userId = NoUser THEN {500}
  ELSE {}

\* uuidv4() never repeats an id already handed out.
UsedIds == {store[k].id : k \in DOMAIN store}

\* A variant of UploadAccepted that answers with the grant whether or not
\* the record was stored.
UploadAcceptedGrantAlways(userId, fileName, fileSize, mimeType, invoiceId) ==
  LET s3Key == generateS3Key(userId, fileName, now)
      invoiceMetadata ==
        [id |-> invoiceId, userId |-> userId, fileName |-> fileName,
         fileSize |-> fileSize, mimeType |-> mimeType, s3Key |-> s3Key,
         status |-> "UPLOADED", createdAt |-> now, updatedAt |-> now]
      created == createInvoice(store, invoiceMetadata)
  IN /\ uploadResponse' =
          {[statusCode |-> 201, success |-> TRUE,
            invoiceId |-> {invoiceId}, s3Key |-> {s3Key}]}
     /\ store' = created.store

\* Lines 76-136: the request passed validation and the caller is known.
UploadAccepted(userId, fileName, fileSize, mimeType, invoiceId) ==
  LET s3Key == generateS3Key(userId, fileName, now)
      invoiceMetadata ==
        [id |-> invoiceId, userId |-> userId, fileName |-> fileName,
         fileSize |-> fileSize, mimeType |-> mimeType, s3Key |-> s3Key,
         status |-> "UPLOADED", createdAt |-> now, updatedAt |-> now]
      created == createInvoice(store, invoiceMetadata)
  IN IF ~created.ok
       THEN /\ uploadResponse' =
                 {[statusCode |-> 500, success |-> FALSE,
                   invoiceId |-> {}, s3Key |-> {}]}
            /\ store' = store
       ELSE /\ uploadResponse' =
                 {[statusCode |-> 201, success |-> TRUE,
                   invoiceId |-> {invoiceId}, s3Key |-> {s3Key}]}
            /\ store' = created.store

\* The handler; `ids` are the values uuidv4() may return.
UploadHandler(userId, fileName, fileSize, mimeType, ids) ==
  LET rejected == UploadRejection(userId, fileName, fileSize, mimeType)
  IN IF rejected # {}
       THEN /\ uploadResponse' =
                 {[statusCode |-> CHOOSE c \in rejected : TRUE, success |-> FALSE,
                   invoiceId |-> {}, s3Key |-> {}]}
            /\ store' = store
       ELSE \E invoiceId \in ids :
              UploadAccepted(userId, fileName, fileSize, mimeType, invoiceId)

Upload(userId, fileName, fileSize, mimeType) ==
  /\ Cardinality(DOMAIN store) < MaxRecords
  /\ UploadHandler(userId, fileName, fileSize, mimeType, UUIDs \ UsedIds)
  /\ UNCHANGED <<now, updateCalls, inv, passes, reply>>

UploadRequest ==
  \E userId \in Users \cup {NoUser}, fileName \in FileNames \cup {<<>>},
     fileSize \in FileSizes \cup {MaxFileSize}, mimeType \in MimeTypes :
       Upload(userId, fileName, fileSize, mimeType)

\* The clock advances.
Tick ==
  /\ now < MaxClock
  /\ now' = now + 1
  /\ UNCHANGED <<store, updateCalls, uploadResponse, inv, passes, reply>>

(***************************************************************************)
(* External capabilities: what Textract and Bedrock may answer             *)
(***************************************************************************)
\* AnalyzeDocument results: two LINE blocks (confidence 90 and 80), and a
\* single page block without text or confidence.
OcrResults ==
  { << [BlockType |-> "LINE", Text |-> {"Acme"}, Confidence |-> {90}],
       [BlockType |-> "LINE", Text |-> {"Total 100"}, Confidence |-> {80}] >>,
    << [BlockType |-> "PAGE", Text |-> {}, Confidence |-> {}] >> }

\* The fields of ExtractedInvoiceData the model follows.
EmptyData == [vendorName |-> {}, totalAmount |-> {}, currency |-> {}, confidence |-> {}]

FullData ==
  [vendorName |-> {"Acme"}, totalAmount |-> {100}, currency |-> {"USD"}, confidence |-> {}]

\* Bedrock response bodies: text that is the JSON of a full record, the JSON
\* of a record with no fields, and text that is not JSON.
BedrockResponses == {"json-full", "json-sparse", "not-json"}

\* JSON.parse(extractedText): {} stands for the SyntaxError it throws.
JsonParse(text) ==
  IF text = "json-full" THEN {FullData}
  ELSE IF text = "json-sparse" THEN {EmptyData}
  ELSE {}

(***************************************************************************)
(* process/index.ts                                                        *)
(***************************************************************************)
\* The raw object key of an S3 event record; malformed marks a key on which
\* decodeURIComponent throws URIError.  The keys the upload handler
\* generates hold only [a-zA-Z0-9._-/] and decode to themselves.
RawKey(parts) == [malformed |-> FALSE, parts |-> parts]

ForeignKeys ==
  { RawKey(<<"uploads", "u1", [ts |-> {1}, name |-> <<"x">>]>>),
    RawKey(<<"uploads", "u1", [ts |-> {}, name |-> <<"x">>]>>),
    RawKey(<<"other", "u1", [ts |-> {1}, name |-> <<"x">>]>>),
    [malformed |-> TRUE, parts |-> <<"uploads", "u1", [ts |-> {1}, name |-> <<"%">>]>>] }

\* decodeURIComponent(key.replace(/\+/g, ' ')): {} stands for the URIError.
DecodeObjectKey(raw) == IF raw.malformed THEN {} ELSE {raw.parts}

\* getInvoiceIdFromS3Key: no table lookup; the id is built from the
\* leading digits of the file name.  {} is null.
getInvoiceIdFromS3Key(objectKey) ==
  IF Len(objectKey) >= 3 /\ objectKey[1] = "uploads"
    THEN LET filename == objectKey[Len(objectKey)]
         IN IF filename.ts # {}
              THEN {<<"invoice", CHOOSE t \in filename.ts : TRUE>>}
              ELSE {}
    ELSE {}

\* The `updates` object updateInvoiceStatus builds.
StatusUpdates(status, error, t) ==
  [status |-> status, updatedAt |-> t,
   processingStartedAt |-> IF status = "PROCESSING" THEN {t} ELSE {},
   processingCompletedAt |-> IF status = "COMPLETED" THEN {t} ELSE {},
   error |-> IF status = "FAILED" THEN error ELSE {}]

\* The `updates` object updateInvoiceWithData builds.
DataUpdates(extractedData, t) ==
  [status |-> "COMPLETED", extractedData |-> {extractedData},
   processingCompletedAt |-> {t}]

\* The records of a table whose blob key yields the given invoice id.
KeysResolvingTo(st, invoiceId) ==
  {k \in DOMAIN st : getInvoiceIdFromS3Key(st[k].s3Key) = {invoiceId}}

\* A variant of updateInvoiceStatus that does write: it looks the record up
\* by its blob key and sets the fields of `updates`, whatever the record's
\* current status is.
updateInvoiceStatusUnconditional(db, invoiceId, status, error, t) ==
  LET keys == KeysResolvingTo(db.store, invoiceId)
      updates == StatusUpdates(status, error, t)
      Write(item) ==
        [item EXCEPT
           !.status = updates.status, !.GSI1PK = <<"STATUS", updates.status>>,
           !.updatedAt = updates.updatedAt,
           !.processingStartedAt =
              IF updates.processingStartedAt # {} THEN updates.processingStartedAt ELSE @,
           !.processingCompletedAt =
              IF updates.processingCompletedAt # {} THEN updates.processingCompletedAt ELSE @,
           !.error = IF updates.error # {} THEN updates.error ELSE @]
  IN [store |-> [k \in DOMAIN db.store |->
                   IF k \in keys THEN Write(db.store[k]) ELSE db.store[k]],
      sent |-> db.sent \cup
                 {[invoiceId |-> db.store[k].id, userId |-> db.store[k].userId,
                   updates |-> updates] : k \in keys}]

\* A variant of updateInvoiceWithData that does write the fields of
\* `updates`, whatever the record's current status is.
updateInvoiceWithDataUnconditional(db, invoiceId, extractedData, t) ==
  LET keys == KeysResolvingTo(db.store, invoiceId)
      updates == DataUpdates(extractedData, t)
  IN [store |-> [k \in DOMAIN db.store |->
                   IF k \in keys
                     THEN [db.store[k] EXCEPT
                             !.status = updates.status,
                             !.GSI1PK = <<"STATUS", updates.status>>,
                             !.extractedData = updates.extractedData,
                             !.processingCompletedAt = updates.processingCompletedAt,
                             !.updatedAt = t]
                     ELSE db.store[k]],
      sent |-> db.sent \cup
                 {[invoiceId |-> db.store[k].id, userId |-> db.store[k].userId,
                   updates |-> updates] : k \in keys}]

\* A variant of updateInvoiceWithData that does write, but leaves `status`
\* out of what it writes.
updateInvoiceWithDataOnly(db, invoiceId, extractedData, t) ==
  LET keys == KeysResolvingTo(db.store, invoiceId)
      updates == DataUpdates(extractedData, t)
  IN [store |-> [k \in DOMAIN db.store |->
                   IF k \in keys
                     THEN [db.store[k] EXCEPT
                             !.extractedData = updates.extractedData,
                             !.processingCompletedAt = updates.processingCompletedAt,
                             !.updatedAt = t]
                     ELSE db.store[k]],
      sent |-> db.sent \cup
                 {[invoiceId |-> db.store[k].id, userId |-> db.store[k].userId,
                   updates |-> updates] : k \in keys}]

\* updateInvoiceStatus: builds `updates` and logs; the call to
\* invoiceDb.updateInvoice is commented out, so the table (db.store) and the
\* commands sent to it (db.sent) stay as they are.
updateInvoiceStatus(db, invoiceId, status, error, t) == db

\* updateInvoiceWithData: likewise builds `updates` and logs only.
updateInvoiceWithData(db, invoiceId, extractedData, t) == db

\* calculateTextractConfidence: the confidences of the blocks that have one.
calculateTextractConfidence(blocks) ==
  LET RECURSIVE Scores(_)
      Scores(b) ==
        IF b = <<>> THEN <<>>
        ELSE IF Head(b).Confidence # {}
          THEN <<CHOOSE x \in Head(b).Confidence : TRUE>> \o Scores(Tail(b))
          ELSE Scores(Tail(b))
  IN Scores(blocks)

\* processTextWithAI's return value: the structured data with the
\* confidence summary merged in.
MergeConfidence(structuredData, blocks) ==
  [structuredData EXCEPT
     !.confidence = {[overall |-> calculateConfidence(calculateTextractConfidence(blocks))]}]

(***************************************************************************)
(* shared/utils: retryWithBackoff                                          *)
(***************************************************************************)
\* A variant of retryWithBackoff that gives up one failure later.
retryWithBackoffOneMore(attempt, maxRetries, baseDelay) ==
  [rethrow |-> attempt = maxRetries + 1, delay |-> baseDelay * (2 ^ attempt)]

\* The catch block of the loop, for the call number attempt + 1 (attempt
\* counts from 0): the error is rethrown when attempt = maxRetries, and
\* otherwise the loop waits baseDelay * 2^attempt before the next call.
retryWithBackoff(attempt, maxRetries, baseDelay) ==
  [rethrow |-> attempt = maxRetries, delay |-> baseDelay * (2 ^ attempt)]

(***************************************************************************)
(* process/index.ts: handler and processInvoiceFile, one action per await  *)
(***************************************************************************)
IdleInvocation ==
  [pc |-> "idle", event |-> <<>>, idx |-> 0, objectKey |-> {}, invoiceId |-> {},
   attempt |-> 0, lastError |-> {}, delay |-> 0,
   textract |-> <<>>, extractedData |-> {}, error |-> {},
   aiError |-> {},
   ocrCalled |-> FALSE, aiCalled |-> FALSE, redelivery |-> FALSE]

\* The object keys a notification may carry: the keys of the granted
\* uploads and keys of objects no grant was issued for.
NotifiableKeys == {RawKey(store[k].s3Key) : k \in DOMAIN store} \cup ForeignKeys

Events == UNION {[1..n -> NotifiableKeys] : n \in 1..MaxEventRecords}

\* processInvoiceFile(event.Records[idx]) is entered.  redelivery notes
\* whether a call for the same key had already run to its end by then.
StartRecord(event, idx, ps) ==
  [IdleInvocation EXCEPT
     !.pc = "decode", !.event = event, !.idx = idx,
     !.redelivery = \E p \in ps : p.key = event[idx] /\ p.outcome # "dropped"]

\* The handler is invoked with an S3 event.
Deliver(i, event) ==
  /\ inv[i].pc = "idle"
  /\ inv' = [inv EXCEPT ![i] = StartRecord(event, 1, passes)]
  /\ UNCHANGED <<now, store, updateCalls, uploadResponse, passes, reply>>

\* processInvoiceFile returns: the loop of the handler moves on.
ReturnFrom(i, outcome) ==
  /\ passes' = passes \cup
       {[inv |-> i, idx |-> inv[i].idx, key |-> inv[i].event[inv[i].idx],
         outcome |-> outcome, ocrCalled |-> inv[i].ocrCalled,
         aiCalled |-> inv[i].aiCalled,
         redelivery |-> inv[i].redelivery, error |-> inv[i].error,
         aiError |-> inv[i].aiError,
         extractedData |-> inv[i].extractedData]}
  /\ inv' = [inv EXCEPT ![i] =
       IF inv[i].idx < Len(inv[i].event)
         THEN StartRecord(inv[i].event, inv[i].idx + 1, passes')
         ELSE [inv[i] EXCEPT !.pc = "done"]]

\* Line 44, outside the try block: a URIError leaves the handler.
Decode(i) ==
  /\ inv[i].pc = "decode"
  /\ LET decoded == DecodeObjectKey(inv[i].event[inv[i].idx])
     IN inv' = [inv EXCEPT ![i] =
          IF decoded = {}
            THEN [inv[i] EXCEPT !.pc = "crashed"]
            ELSE [inv[i] EXCEPT !.pc = "resolve", !.objectKey = decoded]]
  /\ UNCHANGED <<now, store, updateCalls, uploadResponse, passes, reply>>

ObjectKeyOf(i) == CHOOSE k \in inv[i].objectKey : TRUE

InvoiceIdOf(i) == CHOOSE id \in inv[i].invoiceId : TRUE

\* Lines 50-54.
Resolve(i) ==
  /\ inv[i].pc = "resolve"
  /\ LET invoiceId == getInvoiceIdFromS3Key(ObjectKeyOf(i))
     IN IF invoiceId = {}
          THEN ReturnFrom(i, "dropped")
          ELSE /\ inv' = [inv EXCEPT ![i].pc = "mark", ![i].invoiceId = invoiceId]
               /\ passes' = passes
  /\ UNCHANGED <<now, store, updateCalls, uploadResponse, reply>>

\* Line 57.
MarkProcessing(i) ==
  /\ inv[i].pc = "mark"
  /\ LET db == updateInvoiceStatus([store |-> store, sent |-> updateCalls],
                                   InvoiceIdOf(i), "PROCESSING", {}, now)
     IN /\ store' = db.store
        /\ updateCalls' = db.sent
  /\ inv' = [inv EXCEPT ![i].pc = "ocr", ![i].attempt = 0]
  /\ UNCHANGED <<now, uploadResponse, passes, reply>>

\* Line 60, extractTextWithTextract: one textractClient.send of
\* retryWithBackoff(fn, 3, 1000), which succeeds.
OcrSucceeds(i, result) ==
  /\ inv[i].pc = "ocr"
  /\ inv' = [inv EXCEPT ![i].pc = "ai", ![i].attempt = 0, ![i].textract = result,
                        ![i].lastError = {}, ![i].delay = 0,
                        ![i].ocrCalled = TRUE]
  /\ UNCHANGED <<now, store, updateCalls, uploadResponse, passes, reply>>

\* One textractClient.send that throws: retryWithBackoff keeps the error
\* as lastError, waits and tries again while attempt < maxRetries, and
\* rethrows lastError on attempt = maxRetries; extractTextWithTextract
\* wraps the error in a ProcessingError.
OcrFails(i, cause) ==
  /\ inv[i].pc = "ocr"
  /\ LET retry == retryWithBackoff(inv[i].attempt, OcrMaxRetries, OcrBaseDelay)
     IN inv' = [inv EXCEPT ![i] =
          IF retry.rethrow
            THEN [inv[i] EXCEPT !.pc = "catch", !.ocrCalled = TRUE,
                                !.lastError = {cause}, !.delay = 0,
                                !.error = {<<"Textract analysis failed", cause>>}]
            ELSE [inv[i] EXCEPT !.attempt = @ + 1, !.ocrCalled = TRUE,
                                !.lastError = {cause}, !.delay = retry.delay]]
  /\ UNCHANGED <<now, store, updateCalls, uploadResponse, passes, reply>>

\* Line 63, processTextWithAI: one bedrockClient.send of
\* retryWithBackoff(fn, 2, 2000), which answers; a body that does not parse
\* is caught in callBedrockForDataExtraction, which then returns {}.
AiAnswers(i, body) ==
  /\ inv[i].pc = "ai"
  /\ LET parsed == JsonParse(body)
         structuredData == IF parsed = {} THEN EmptyData ELSE CHOOSE d \in parsed : TRUE
     IN inv' = [inv EXCEPT ![i].pc = "persist", ![i].aiCalled = TRUE,
                  ![i].lastError = {}, ![i].delay = 0,
                  ![i].aiError = IF parsed = {} THEN {"SyntaxError"} ELSE {},
                  ![i].extractedData = {MergeConfidence(structuredData, inv[i].textract)}]
  /\ UNCHANGED <<now, store, updateCalls, uploadResponse, passes, reply>>

\* One bedrockClient.send that throws: retried while attempt < maxRetries;
\* the rethrown error is caught in callBedrockForDataExtraction, which
\* returns {} (lines 264-268).  aiError is the error that catch block logs.
AiFails(i, cause) ==
  /\ inv[i].pc = "ai"
  /\ LET retry == retryWithBackoff(inv[i].attempt, AiMaxRetries, AiBaseDelay)
     IN inv' = [inv EXCEPT ![i] =
          IF retry.rethrow
            THEN [inv[i] EXCEPT !.pc = "persist", !.aiCalled = TRUE, !.aiError = {cause},
                    !.lastError = {cause}, !.delay = 0,
                    !.extractedData = {MergeConfidence(EmptyData, inv[i].textract)}]
            ELSE [inv[i] EXCEPT !.attempt = @ + 1, !.aiCalled = TRUE,
                                !.lastError = {cause}, !.delay = retry.delay]]
  /\ UNCHANGED <<now, store, updateCalls, uploadResponse, passes, reply>>

\* Lines 66-71.
Persist(i) ==
  /\ inv[i].pc = "persist"
  /\ LET db == updateInvoiceWithData([store |-> store, sent |-> updateCalls],
                  InvoiceIdOf(i), CHOOSE d \in inv[i].extractedData : TRUE, now)
     IN /\ store' = db.store
        /\ updateCalls' = db.sent
  /\ ReturnFrom(i, "succeeded")
  /\ UNCHANGED <<now, uploadResponse, reply>>

\* Lines 73-89, the catch block.
Catch(i) ==
  /\ inv[i].pc = "catch"
  /\ LET invoiceId == getInvoiceIdFromS3Key(ObjectKeyOf(i))
         db == IF invoiceId # {}
                 THEN updateInvoiceStatus([store |-> store, sent |-> updateCalls],
                        CHOOSE id \in invoiceId : TRUE, "FAILED", inv[i].error, now)
                 ELSE [store |-> store, sent |-> updateCalls]
     IN /\ store' = db.store
        /\ updateCalls' = db.sent
  /\ ReturnFrom(i, "failed")
  /\ UNCHANGED <<now, uploadResponse, reply>>

(***************************************************************************)
(* The store's operations as their callers reach them: uploads by several  *)
(* owners, updates with partial field sets, reads and listings.  Each      *)
(* step leaves its arguments and outcome in `reply`.                       *)
(***************************************************************************)
NoReply == [op |-> "none"]

StoreUpload ==
  /\ Cardinality(DOMAIN store) < MaxStoreRecords
  /\ \E userId \in Owners, fileName \in FileNames,
        fileSize \in FileSizes \cup {MaxFileSize}, mimeType \in MimeTypes :
          /\ UploadHandler(userId, fileName, fileSize, mimeType, StoreIds)
          /\ reply' = [op |-> "upload", userId |-> userId, fileName |-> fileName,
                       fileSize |-> fileSize, mimeType |-> mimeType]
  /\ UNCHANGED <<now, updateCalls, inv, passes>>

\* The `updates` arguments: a status alone, the object updateInvoiceStatus
\* builds, and objects naming the identity attributes.
PartialUpdates(t) ==
  { [status |-> "PROCESSING"],
    StatusUpdates("FAILED", {"boom"}, t),
    [userId |-> "u2"],
    [id |-> <<"uuid", MaxStoreIds>>] }

StoreUpdate ==
  \E invoiceId \in StoreIds, userId \in Owners, updates \in PartialUpdates(now) :
    LET updated == updateInvoice(store, invoiceId, userId, updates, now)
    IN /\ store' = updated.store
       /\ reply' = [op |-> "update", invoiceId |-> invoiceId, userId |-> userId,
                    updates |-> updates, ok |-> updated.ok, at |-> now]
       /\ UNCHANGED <<now, updateCalls, uploadResponse, inv, passes>>

\* GET /invoices/{id}: 404 (NotFoundError) when getInvoice returns null.
getInvoiceById ==
  \E invoiceId \in StoreIds, userId \in Owners :
    LET invoice == getInvoice(store, invoiceId, userId)
    IN /\ reply' = [op |-> "get", invoiceId |-> invoiceId, userId |-> userId,
                    statusCode |-> IF invoice = {} THEN 404 ELSE 200,
                    data |-> invoice]
       /\ UNCHANGED <<now, store, updateCalls, uploadResponse, inv, passes>>

\* GET /invoices: a first page, or the page after the one in `reply`.
getInvoicesList ==
  \E userId \in Owners, limit \in Limits, status \in {{}, {"UPLOADED"}},
     nextToken \in {{}} \cup (IF reply.op = "listByOwner" THEN {reply.nextToken} ELSE {}) :
    LET result == getUserInvoices(store, userId, limit, nextToken, status)
    IN /\ reply' = [op |-> "listByOwner", userId |-> userId, limit |-> limit,
                    status |-> status, cursor |-> nextToken, ok |-> result.ok,
                    items |-> result.items, nextToken |-> result.nextToken,
                    count |-> result.count]
       /\ UNCHANGED <<now, store, updateCalls, uploadResponse, inv, passes>>

StoreListByStatus ==
  \E status \in InvoiceStatus, limit \in {StatusDefaultLimit} :
    LET result == getInvoicesByStatus(store, status, limit)
    IN /\ reply' = [op |-> "listByStatus", status |-> status, limit |-> limit,
                    ok |-> result.ok, items |-> result.items]
       /\ UNCHANGED <<now, store, updateCalls, uploadResponse, inv, passes>>

(***************************************************************************)
(* Listing, search and statistics over a table that is written between     *)
(* the requests.  `reply` is the answer the client holds: a write marks it *)
(* as no longer fresh.  A page's `chain` tells that it continues, on an    *)
(* unchanged table, an iteration begun at the first page with the same     *)
(* owner, limit and filter; `collected` are the items of that iteration.   *)
(***************************************************************************)
Stale(r) == IF r.op = "none" THEN r ELSE [r EXCEPT !.fresh = FALSE]

\* createInvoice with the metadata the upload handler builds for a new uuid.
ListCreate ==
  /\ Cardinality(DOMAIN store) < MaxListRecords
  /\ \E userId \in Owners, fileName \in FileNames, invoiceId \in ListIds \ UsedIds :
       store' = createInvoice(store,
                  [id |-> invoiceId, userId |-> userId, fileName |-> fileName,
                   fileSize |-> MaxFileSize, mimeType |-> "IMAGE/PNG",
                   s3Key |-> generateS3Key(userId, fileName, now),
                   status |-> "UPLOADED", createdAt |-> now, updatedAt |-> now]).store
  /\ reply' = Stale(reply)
  /\ UNCHANGED <<now, updateCalls, uploadResponse, inv, passes>>

\* updateInvoice with the object updateInvoiceWithData builds.
ListComplete ==
  \E key \in DOMAIN store, data \in SearchData :
    /\ store' = updateInvoice(store, key[2][2], key[1][2], DataUpdates(data, now), now).store
    /\ reply' = Stale(reply)
    /\ UNCHANGED <<now, updateCalls, uploadResponse, inv, passes>>

\* GET /invoices: a first page, the page after the one held, or the page
\* held fetched again.
ListPage ==
  \E userId \in Owners, limit \in Limits, status \in {{}, {"COMPLETED"}},
     nextToken \in {{}} \cup (IF reply.op = "page" THEN {reply.nextToken, reply.cursor} ELSE {}) :
    LET result == getUserInvoices(store, userId, limit, nextToken, status)
        follows == /\ reply.op = "page" /\ reply.chain /\ reply.fresh
                   /\ nextToken = reply.nextToken
                   /\ userId = reply.userId /\ limit = reply.limit
                   /\ status = reply.status
    IN /\ reply' = [op |-> "page", fresh |-> TRUE, userId |-> userId, limit |-> limit,
                    status |-> status, cursor |-> nextToken, ok |-> result.ok,
                    items |-> result.items, nextToken |-> result.nextToken,
                    count |-> result.count,
                    chain |-> result.ok /\ (nextToken = {} \/ follows),
                    collected |-> IF nextToken = {} THEN result.items
                                  ELSE IF follows THEN reply.collected \o result.items
                                  ELSE <<>>]
       /\ UNCHANGED <<now, store, updateCalls, uploadResponse, inv, passes>>

\* GET /invoices/search?q=...
ListSearch ==
  \E userId \in Owners, searchTerm \in SearchTerms :
    LET result == searchInvoices(store, userId, searchTerm)
    IN /\ reply' = [op |-> "search", fresh |-> TRUE, userId |-> userId,
                    searchTerm |-> searchTerm, statusCode |-> result.statusCode,
                    items |-> result.items, count |-> result.count]
       /\ UNCHANGED <<now, store, updateCalls, uploadResponse, inv, passes>>

\* GET /invoices/stats
ListStats ==
  \E userId \in Owners :
    /\ reply' = [op |-> "stats", fresh |-> TRUE, userId |-> userId,
                 stats |-> getInvoiceStats(store, userId)]
    /\ UNCHANGED <<now, store, updateCalls, uploadResponse, inv, passes>>

(***************************************************************************)
(* Specification                                                           *)
(***************************************************************************)
Init ==
  /\ now = 1
  /\ store = <<>>
  /\ updateCalls = {}
  /\ uploadResponse = {}
  /\ inv = [i \in Invs |-> IdleInvocation]
  /\ passes = {}
  /\ reply = NoReply

Next ==
  \/ UploadRequest
  \/ Tick
  \/ \E i \in Invs, event \in Events : Deliver(i, event)
  \/ \E i \in Invs : Decode(i)
  \/ \E i \in Invs : Resolve(i)
  \/ \E i \in Invs : MarkProcessing(i)
  \/ \E i \in Invs, result \in OcrResults : OcrSucceeds(i, result)
  \/ \E i \in Invs, cause \in OcrErrors : OcrFails(i, cause)
  \/ \E i \in Invs, body \in BedrockResponses : AiAnswers(i, body)
  \/ \E i \in Invs, cause \in AiErrors : AiFails(i, cause)
  \/ \E i \in Invs : Persist(i)
  \/ \E i \in Invs : Catch(i)

Spec == Init /\ [][Next]_vars

NextStore ==
  \/ StoreUpload
  \/ Tick
  \/ StoreUpdate
  \/ getInvoiceById
  \/ getInvoicesList
  \/ StoreListByStatus

SpecStore == Init /\ [][NextStore]_vars

NextList ==
  \/ ListCreate
  \/ ListComplete
  \/ ListPage
  \/ ListSearch
  \/ ListStats

SpecList == Init /\ [][NextList]_vars

\* One handler invocation given an S3 event with several records.
BatchEvents == UNION {[1..n -> NotifiableKeys] : n \in 2..MaxBatchRecords}

NextBatch ==
  \/ UploadRequest
  \/ \E event \in BatchEvents : Deliver(1, event)
  \/ Decode(1)
  \/ Resolve(1)
  \/ MarkProcessing(1)
  \/ \E result \in OcrResults : OcrSucceeds(1, result)
  \/ \E cause \in OcrErrors : OcrFails(1, cause)
  \/ \E body \in BedrockResponses : AiAnswers(1, body)
  \/ \E cause \in AiErrors : AiFails(1, cause)
  \/ Persist(1)
  \/ Catch(1)

SpecBatch == Init /\ [][NextBatch]_vars

(***************************************************************************)
(* Properties                                                              *)
(***************************************************************************)
\* The stored records a notification's object key belongs to.
RecordsForKey(raw) == {k \in DOMAIN store : RawKey(store[k].s3Key) = raw}

\* No pipeline invocation is running.
Quiescent == \A i \in Invs : inv[i].pc \in {"idle", "done", "crashed"}

Terminal == {"COMPLETED", "FAILED"}

AllowedTransitions ==
  { <<"UPLOADED", "PROCESSING">>, <<"PROCESSING", "COMPLETED">>,
    <<"PROCESSING", "FAILED">> }

C2_DeliveredRecordReachesTerminal ==
  Quiescent =>
    \A p \in passes : \A k \in RecordsForKey(p.key) : store[k].status \in Terminal

\* The key invocation i is working on, or worked on last.
CurrentKey(i) == inv[i].event[inv[i].idx]

\* Invocations i and j handle the same stored record's notification, and
\* neither was started after a call for that key had already returned.
Concurrent(i, j) ==
  /\ i # j
  /\ inv[i].pc # "idle" /\ inv[j].pc # "idle"
  /\ CurrentKey(i) = CurrentKey(j)
  /\ RecordsForKey(CurrentKey(i)) # {}
  /\ ~inv[i].redelivery /\ ~inv[j].redelivery

\* C3: of two invocations handling the same record's notification
\* concurrently, at most one calls OCR and at most one calls Structuring.
C3_OneConcurrentWinner ==
  \A i \in Invs, j \in Invs :
    Concurrent(i, j) =>
      /\ ~(inv[i].ocrCalled /\ inv[j].ocrCalled)
      /\ ~(inv[i].aiCalled /\ inv[j].aiCalled)

\* C4: a notification of a stored record that is delivered again after a
\* processing pass for it has returned (by when the record's status has left
\* UPLOADED) leads to no OCR call and no Structuring call.
C4_RedeliveryIsNoOp ==
  \A i \in Invs :
    (inv[i].pc # "idle" /\ inv[i].redelivery /\ RecordsForKey(CurrentKey(i)) # {}) =>
      ~inv[i].ocrCalled /\ ~inv[i].aiCalled

C6_UnknownKeyIsDropped ==
  \A i \in Invs :
    (inv[i].pc # "idle" /\ RecordsForKey(CurrentKey(i)) = {}) =>
      /\ inv[i].pc \in {"decode", "resolve", "done", "crashed"}
      /\ ~inv[i].ocrCalled /\ ~inv[i].aiCalled

\* The pass ended in the catch block because every OCR attempt failed.
OcrExhausted(p) ==
  p.outcome = "failed" /\ \E e \in p.error : e[1] = "Textract analysis failed"

\* C7: after a pass in which every OCR attempt failed, the record is FAILED,
\* has a non-empty error and no extractedData.
C7_OcrExhaustedEndsFailed ==
  \A p \in passes :
    OcrExhausted(p) =>
      \A k \in RecordsForKey(p.key) :
        /\ store[k].status = "FAILED"
        /\ store[k].error # {}
        /\ store[k].extractedData = {}

\* C8: after a pass in which every Structuring attempt raised an error, the
\* record is FAILED and its error carries the message of that error.
C8_StructuringExhaustedEndsFailed ==
  \A p \in passes :
    (p.aiError \cap AiErrors # {}) =>
      \A k \in RecordsForKey(p.key) :
        /\ store[k].status = "FAILED"
        /\ \E e \in store[k].error : e[2] \in p.aiError

\* C9: after a pass in which OCR succeeded and Structuring returned a
\* structured record (however few fields it has), the record is COMPLETED;
\* and a record is FAILED only if some pass for it had a capability failure.
C9_SparseDataStillCompletes ==
  /\ \A p \in passes :
       (p.outcome = "succeeded" /\ p.aiError = {}) =>
         \A k \in RecordsForKey(p.key) : store[k].status = "COMPLETED"
  /\ \A k \in DOMAIN store :
       store[k].status = "FAILED" =>
         \E p \in passes :
           /\ k \in RecordsForKey(p.key)
           /\ (OcrExhausted(p) \/ p.aiError \cap AiErrors # {})

\* C10: after a pass that ended in the catch block, an update with status
\* FAILED has been sent to the table for the record of that pass, and no
\* record whose pass has returned is still PROCESSING.
C10_FailedWriteIsAttempted ==
  \A p \in passes :
    /\ p.outcome = "failed" =>
         \E u \in updateCalls :
           /\ u.updates.status = "FAILED"
           /\ \/ {u.invoiceId} = getInvoiceIdFromS3Key(p.key.parts)
              \/ \E k \in RecordsForKey(p.key) : store[k].id = u.invoiceId
    /\ \A k \in RecordsForKey(p.key) :
         (Quiescent => store[k].status # "PROCESSING")

(***************************************************************************)
(* Properties of the store's operations (SpecStore)                        *)
(***************************************************************************)
\* A step of the upload handler (or one that changes nothing).
UploadStep == reply'.op = "upload" /\ now' = now

\* A step of updateInvoice (or one that changes nothing).
UpdateStep == reply'.op = "update" /\ now' = now

C12_GrantOnlyAfterRecordStored ==
  [][UploadStep =>
       \A r \in uploadResponse' :
         IF r.statusCode = 201
           THEN /\ r.invoiceId # {} /\ r.s3Key # {}
                /\ \E k \in DOMAIN store' \ DOMAIN store :
                     /\ DOMAIN store' = DOMAIN store \cup {k}
                     /\ \A other \in DOMAIN store : store'[other] = store[other]
                     /\ k = PrimaryKey(reply'.userId, store'[k].id)
                     /\ r.invoiceId = {store'[k].id}
                     /\ r.s3Key = {store'[k].s3Key}
                     /\ store'[k].status = "UPLOADED"
           ELSE /\ r.invoiceId = {} /\ r.s3Key = {}
                /\ store' = store]_vars

C12_Witness ==
  /\ reply.op = "upload"
  /\ \E r \in uploadResponse :
       /\ r.statusCode = 201
       /\ \E k \in DOMAIN store :
            /\ r.invoiceId = {store[k].id} /\ r.s3Key = {store[k].s3Key}
            /\ store[k].status = "UPLOADED" /\ store[k].userId = reply.userId

\* The stored records with the given id in the given owner's partition.
StoredUnder(userId, invoiceId) ==
  {k \in DOMAIN store : k[1] = <<"USER", userId>> /\ k[2] = <<"INVOICE", invoiceId>>}

\* C13: get(id, ownerId) answers with a record only when a record with that
\* id is stored under that owner, and then with that record; for every other
\* pair, an existing id of another owner included, it answers NotFound (404)
\* and carries nothing of any record.
C13_GetIsOwnerScoped ==
  reply.op = "get" =>
    LET own == StoredUnder(reply.userId, reply.invoiceId)
    IN IF own = {}
         THEN reply.statusCode = 404 /\ reply.data = {}
         ELSE /\ reply.statusCode = 200
              /\ reply.data = {mapDynamoItemToInvoice(store[k]) : k \in own}

C13_Witness ==
  /\ reply.op = "get"
  /\ reply.statusCode = 404
  /\ StoredUnder(reply.userId, reply.invoiceId) = {}
  /\ \E k \in DOMAIN store : k[2] = <<"INVOICE", reply.invoiceId>>

\* The ids of the stored records, read from their keys.
StoredIds == {k[2][2] : k \in DOMAIN store}

\* C14: create fails whenever a record with the same id is already stored,
\* under any owner, and then leaves the store unchanged: an upload is
\* answered with a grant only for an id no stored record has, and no two
\* stored records share an id.
C14_CreateRejectsStoredId ==
  [][UploadStep =>
       /\ \A r \in uploadResponse' :
            r.statusCode = 201 => r.invoiceId \cap StoredIds = {}
       /\ \A k1, k2 \in DOMAIN store' : k1[2] = k2[2] => k1 = k2]_vars

C16_StatusListingMatchesStatus ==
  reply.op = "listByStatus" =>
    /\ \A k \in DOMAIN store :
         store[k].status = reply.status =>
           /\ reply.ok
           /\ \/ Len(reply.items) = reply.limit
              \/ \E i \in DOMAIN reply.items :
                   reply.items[i] = mapDynamoItemToInvoice(store[k])
    /\ \A i \in DOMAIN reply.items : reply.items[i].status = reply.status
    /\ \A i, j \in DOMAIN reply.items :
         i < j => reply.items[i].createdAt >= reply.items[j].createdAt

\* C17: every update of a stored record succeeds and sets updatedAt to the
\* time of the update, whatever partial field set it is given, and no step
\* decreases a record's updatedAt.
C17_UpdateStampsUpdatedAt ==
  [][/\ UpdateStep /\ StoredUnder(reply'.userId, reply'.invoiceId) # {} =>
          /\ reply'.ok
          /\ \A k \in StoredUnder(reply'.userId, reply'.invoiceId) :
               store'[k].updatedAt = reply'.at
     /\ \A k \in DOMAIN store :
          k \in DOMAIN store' /\ store'[k].updatedAt >= store[k].updatedAt]_vars

\* C18: every stored record's id and ownerId are the ones it was created
\* with, which are those of the key it is stored under.
C18_IdentityIsImmutable ==
  \A k \in DOMAIN store :
    /\ store[k].id = k[2][2]
    /\ store[k].userId = k[1][2]
    /\ store[k].PK = k[1] /\ store[k].SK = k[2]

\* C20: a page of listByOwner is ordered newest first by creation time: no
\* record comes before a record created strictly later.
C20_OwnerListingNewestFirst ==
  reply.op = "listByOwner" /\ reply.ok =>
    \A i, j \in DOMAIN reply.items :
      i < j => reply.items[i].createdAt >= reply.items[j].createdAt

(***************************************************************************)
(* Properties of the pipeline (Spec), continued                            *)
(***************************************************************************)
\* A processing pass for the record's blob key has returned successfully:
\* the point at which the pipeline has persisted its result.
ProcessedOnce(k) ==
  \E p \in passes : p.outcome = "succeeded" /\ p.key = RawKey(store[k].s3Key)

TransientOcrErrors == {"ThrottlingException"}

\* C25: the OCR capability is called again only after a transient failure:
\* a non-transient failure is not retried.
C25_NonTransientOcrFailureNotRetried ==
  \A i \in Invs :
    (inv[i].pc = "ocr" /\ inv[i].attempt > 0) =>
      inv[i].lastError \subseteq TransientOcrErrors

\* A step in which invocation i gets the answer of one capability call.
OcrCall(i) == inv[i].pc = "ocr" /\ inv'[i] # inv[i]

AiCall(i) == inv[i].pc = "ai" /\ inv'[i] # inv[i]

\* The waits between calls double from the base delay, no call follows a
\* success, and when every call failed the error of the last call is the
\* one thrown (for Structuring: the one its caller catches).
RetryDiscipline(i) ==
  /\ OcrCall(i) =>
       /\ inv'[i].pc = "ocr" =>
            /\ inv'[i].attempt = inv[i].attempt + 1
            /\ inv'[i].delay = IF inv[i].attempt = 0 THEN 1000 ELSE 2 * inv[i].delay
       /\ inv'[i].pc = "catch" =>
            inv'[i].error = {<<"Textract analysis failed", e>> : e \in inv'[i].lastError}
       /\ inv'[i].pc \in {"ocr", "ai", "catch"}
  /\ AiCall(i) =>
       /\ inv'[i].pc = "ai" =>
            /\ inv'[i].attempt = inv[i].attempt + 1
            /\ inv'[i].delay = IF inv[i].attempt = 0 THEN 2000 ELSE 2 * inv[i].delay
       /\ (inv'[i].pc = "persist" /\ inv'[i].lastError # {}) =>
            inv'[i].aiError = inv'[i].lastError
       /\ inv'[i].pc \in {"ai", "persist"}
  /\ inv[i].pc \in {"ai", "persist", "catch"} => inv'[i].pc # "ocr"
  /\ inv[i].pc \in {"persist", "catch"} => inv'[i].pc # "ai"

\* C26 as stated: per processing attempt the OCR capability is called at
\* most 3 times and the Structuring capability at most 2 times, with the
\* retry discipline above.
C26_CallCapsThreeAndTwo ==
  [][\A i \in Invs :
       /\ OcrCall(i) => inv[i].attempt + 1 <= 3
       /\ AiCall(i) => inv[i].attempt + 1 <= 2
       /\ RetryDiscipline(i)]_vars

\* C26, amended: per processing attempt the OCR capability is called at
\* most 4 times (one call and 3 retries) and the Structuring capability at
\* most 3 times (one call and 2 retries), with the retry discipline above.
C26_CallCapsRetriesPlusOne ==
  [][\A i \in Invs :
       /\ OcrCall(i) => inv[i].attempt + 1 <= 4
       /\ AiCall(i) => inv[i].attempt + 1 <= 3
       /\ RetryDiscipline(i)]_vars

\* C26 witness: every OCR call of an attempt has failed, the fourth
\* included, and the error of the last one was thrown.
C26_Witness ==
  \E i \in Invs :
    /\ inv[i].pc = "catch" /\ inv[i].attempt = 3
    /\ inv[i].error = {<<"Textract analysis failed", e>> : e \in inv[i].lastError}
    /\ inv[i].lastError # {}

\* The confidences of the OCR blocks that carry one.
BlocksWithConfidence(blocks) == {j \in DOMAIN blocks : blocks[j].Confidence # {}}

\* m is the arithmetic mean of the confidences of the blocks, 0 for none.
IsMeanConfidence(m, blocks) ==
  LET with == BlocksWithConfidence(blocks)
      RECURSIVE Total(_)
      Total(S) == IF S = {} THEN 0
                  ELSE LET j == CHOOSE x \in S : TRUE
                       IN (CHOOSE c \in blocks[j].Confidence : TRUE) + Total(S \ {j})
  IN IF with = {} THEN m = 0 ELSE m * Cardinality(with) = Total(with)

C29_BatchIsProcessedToTheEnd ==
  \A i \in Invs :
    /\ inv[i].pc # "crashed"
    /\ \A p \in passes : p.inv = i /\ inv[i].pc # "done" => p.idx < inv[i].idx
    /\ inv[i].pc = "done" =>
         \A idx \in DOMAIN inv[i].event : \E p \in passes : p.inv = i /\ p.idx = idx

(***************************************************************************)
(* Properties of listing, search and statistics (SpecList)                 *)
(***************************************************************************)
\* The keys of an owner's stored records, and those a status filter keeps.
OwnedBy(userId) == {k \in DOMAIN store : k[1] = <<"USER", userId>>}

Matching(userId, status) ==
  {k \in OwnedBy(userId) : status = {} \/ store[k].status \in status}

\* The ids of a sequence of items, in order.
IdsOf(items) == [i \in DOMAIN items |-> items[i].id]

\* C21: on an unchanged table, the pages from the first one along the
\* returned cursors until none is returned hold exactly the owner's records
\* that match the filter, each once.
C21_IterationYieldsEveryMatch ==
  (reply.op = "page" /\ reply.fresh /\ reply.chain /\ reply.nextToken = {}) =>
    LET match == Matching(reply.userId, reply.status)
    IN /\ Len(reply.collected) = Cardinality(match)
       /\ \A k \in match :
            \E i \in DOMAIN reply.collected :
              reply.collected[i] = mapDynamoItemToInvoice(store[k])
       /\ \A i \in DOMAIN reply.collected :
            \E k \in match : reply.collected[i] = mapDynamoItemToInvoice(store[k])

\* C21 witness: an iteration of several pages of one item under a status
\* filter has ended, over an owner with matching and non-matching records.
C21_Witness ==
  /\ reply.op = "page" /\ reply.fresh /\ reply.chain /\ reply.nextToken = {}
  /\ reply.cursor # {} /\ reply.limit = 1 /\ reply.status # {}
  /\ Len(reply.collected) >= 2
  /\ Matching(reply.userId, reply.status) # OwnedBy(reply.userId)

\* C22: fetching again with a cursor already handed out returns the same
\* page, whatever records were created in between (stated for listings
\* without a status filter, compared by the ids of the items).
C22_CursorPageIsStable ==
  [][(/\ reply.op = "page" /\ reply'.op = "page"
      /\ reply.ok /\ reply'.ok
      /\ reply.cursor # {} /\ reply'.cursor = reply.cursor
      /\ reply'.userId = reply.userId /\ reply'.limit = reply.limit
      /\ reply.status = {} /\ reply'.status = {}) =>
       IdsOf(reply'.items) = IdsOf(reply.items)]_vars

\* C23: a page holds at most limit items, and it carries a cursor exactly
\* when a record matching the filter lies after the page.
C23_CursorIffMoreResults ==
  (reply.op = "page" /\ reply.fresh /\ reply.ok) =>
    /\ Len(reply.items) <= reply.limit
    /\ \A token \in reply.nextToken :
         \E k \in Matching(reply.userId, reply.status) :
           SortKeyRank(k) < SortKeyRank(DecodeToken(token))
    /\ reply.nextToken = {} =>
         \A k \in Matching(reply.userId, reply.status) :
           \/ \E i \in DOMAIN reply.items : reply.items[i].id = store[k].id
           \/ \E start \in reply.cursor :
                SortKeyRank(k) >= SortKeyRank(DecodeToken(start))

\* The texts search looks at, for a record's extractedData.
SearchFields(data) ==
  data.vendorName \cup data.invoiceNumber \cup data.customerName
    \cup UNION {{l[i].description : i \in DOMAIN l} : l \in data.lineItems}

\* The owner's COMPLETED records that carry extractedData satisfying Hit.
CompletedHits(userId, Hit(_)) ==
  {k \in Matching(userId, {"COMPLETED"}) :
     \E d \in store[k].extractedData : Hit(d)}

\* The items of a search reply are exactly the records `hits`.
SearchReturns(hits) ==
  /\ reply.statusCode = 200
  /\ Len(reply.items) = Cardinality(hits)
  /\ \A k \in hits :
       \E i \in DOMAIN reply.items : reply.items[i] = mapDynamoItemToInvoice(store[k])

\* C24: a search with a non-empty term returns exactly the
\* owner's COMPLETED records one of whose vendor name, invoice number,
\* customer name or line-item descriptions contains the term, compared
\* case-insensitively; an empty term is answered 400.
C24_SearchMatchesSomeField ==
  (reply.op = "search" /\ reply.fresh) =>
    IF reply.searchTerm = <<>> THEN reply.statusCode = 400 /\ reply.items = <<>>
    ELSE SearchReturns(CompletedHits(reply.userId,
           LAMBDA d : \E text \in SearchFields(d) :
                        Includes(ToLowerText(text), ToLowerText(reply.searchTerm))))

\* What searchInvoices computes: the owner's COMPLETED records for which
\* the text made of vendor name, invoice number, customer name and
\* line-item descriptions, joined by single spaces, contains the term,
\* compared case-insensitively; an empty term is answered 400.
SearchMatchesJoinedText ==
  (reply.op = "search" /\ reply.fresh) =>
    IF reply.searchTerm = <<>> THEN reply.statusCode = 400 /\ reply.items = <<>>
    ELSE SearchReturns(CompletedHits(reply.userId,
           LAMBDA d :
             LET lineItems == IF d.lineItems = {} THEN <<>>
                              ELSE CHOOSE l \in d.lineItems : TRUE
                 joined == JoinWithSpace(
                             <<d.vendorName, d.invoiceNumber, d.customerName>>
                               \o [i \in DOMAIN lineItems |-> {lineItems[i].description}])
             IN Includes(ToLowerText(joined), ToLowerText(reply.searchTerm))))

\* C28: the statistics report, for each status, the number of the owner's
\* records in that status, and as totalInvoices the number of the owner's
\* records.
C28_StatsCountEveryRecord ==
  (reply.op = "stats" /\ reply.fresh) =>
    /\ reply.stats.byStatus.uploaded = Cardinality(Matching(reply.userId, {"UPLOADED"}))
    /\ reply.stats.byStatus.processing = Cardinality(Matching(reply.userId, {"PROCESSING"}))
    /\ reply.stats.byStatus.completed = Cardinality(Matching(reply.userId, {"COMPLETED"}))
    /\ reply.stats.byStatus.failed = Cardinality(Matching(reply.userId, {"FAILED"}))
    /\ reply.stats.totalInvoices = Cardinality(OwnedBy(reply.userId))

\* C30: a page or a search result for an owner holds only records stored
\* under that owner, whatever limit, filter and cursor were given, and the
\* statistics count no more than the owner's records.
C30_ListingsAreOwnerScoped ==
  /\ (reply.op \in {"page", "search"} /\ reply.fresh) =>
       \A i \in DOMAIN reply.items :
         /\ reply.items[i].userId = reply.userId
         /\ \E k \in OwnedBy(reply.userId) :
              reply.items[i] = mapDynamoItemToInvoice(store[k])
  /\ (reply.op = "stats" /\ reply.fresh) =>
       /\ reply.stats.totalInvoices <= Cardinality(OwnedBy(reply.userId))
       /\ reply.stats.byStatus.uploaded <= Cardinality(Matching(reply.userId, {"UPLOADED"}))
       /\ reply.stats.byStatus.completed <= Cardinality(Matching(reply.userId, {"COMPLETED"}))
       /\ reply.stats.byStatus.processing <= Cardinality(Matching(reply.userId, {"PROCESSING"}))
       /\ reply.stats.byStatus.failed <= Cardinality(Matching(reply.userId, {"FAILED"}))

\* C30 witness: a page was requested for one owner with a cursor issued to
\* another owner, who has records; it holds none of them.
C30_Witness ==
  /\ reply.op = "page" /\ reply.fresh
  /\ \E token \in reply.cursor :
       /\ DecodeToken(token)[1] # <<"USER", reply.userId>>
       /\ DecodeToken(token) \in DOMAIN store
  /\ reply.items = <<>>

====
